---- MODULE Spec2Model ----
(***************************************************************************)
(* willitgo: an HTTP service that probes whether host:port is reachable,   *)
(* directly (plain handler, plainTest.Check) or through a proxy with       *)
(* CONNECT (proxyHandler.ServeHTTP).  One request is followed from the     *)
(* dispatcher of Run to the handler's return.  Strings are sequences of    *)
(* one-element strings, so that the empty string is <<>> and the address   *)
(* functions of package net can be computed byte by byte.                  *)
(***************************************************************************)
EXTENDS Integers, Sequences, FiniteSets, TLC

\* ------------------------------------------------------------------ bounds
\* Longest request path (after the leading '/') that is enumerated.
MaxLen == 4
\* Most values the proxy's reply carries under one header name.
MaxVals == 2

\* ------------------------------------------------------- program constants
StatusOK == 200
StatusBadRequest == 400
StatusBadGateway == 502
StatusServiceUnavailable == 503
StatusGatewayTimeout == 504

\* ------------------------------------------------------------------ strings
\* The bytes a path is made of: "h" stands for any byte that is none of the
\* three bytes net.SplitHostPort looks at.
Chars == {"h", ":", "[", "]"}

RECURSIVE StringsUpTo(_)
StringsUpTo(n) ==
  IF n = 0 THEN {<<>>}
  ELSE LET shorter == StringsUpTo(n - 1)
       IN shorter \cup {Append(s, c) : s \in {t \in shorter : Len(t) = n - 1}, c \in Chars}

\* bytealg.IndexByteString, 1-based, 0 when c does not occur in s.
IndexByte(s, c) ==
  IF \E i \in 1..Len(s) : s[i] = c
  THEN CHOOSE i \in 1..Len(s) : s[i] = c /\ \A j \in 1..(i - 1) : s[j] # c
  ELSE 0

\* bytealg.LastIndexByteString, 1-based, 0 when c does not occur in s.
LastIndexByte(s, c) ==
  IF \E i \in 1..Len(s) : s[i] = c
  THEN CHOOSE i \in 1..Len(s) : s[i] = c /\ \A j \in (i + 1)..Len(s) : s[j] # c
  ELSE 0

\* s[from:] of Go, with from 1-based here.
Tail_(s, from) == SubSeq(s, from, Len(s))

\* net.AddrError.Error(): "address " + Addr + ": " + Err, or Err alone when
\* Addr is empty.
AddrErrorText(addr, why) ==
  IF addr = <<>> THEN <<why>> ELSE <<"address ">> \o addr \o <<": ", why>>

AddrErr(addr, why) ==
  [ok |-> FALSE, host |-> <<>>, port |-> <<>>, err |-> AddrErrorText(addr, why)]

\* net.SplitHostPort as the handlers call it on r.URL.Path[1:]: the port
\* starts after the last colon; a host in brackets ends at the first ']',
\* which must be just before that colon; no other bracket may occur.  An
\* empty host and an empty port are both accepted.
SplitHostPort(hostport) ==
  LET i == LastIndexByte(hostport, ":")
      end == IndexByte(hostport, "]")
      bracketed == hostport[1] = "["
      host == IF bracketed THEN SubSeq(hostport, 2, end - 1)
                           ELSE SubSeq(hostport, 1, i - 1)
      j == IF bracketed THEN 2 ELSE 1
      k == IF bracketed THEN end + 1 ELSE 1
  IN IF i = 0 THEN AddrErr(hostport, "missing port in address")
     ELSE IF bracketed /\ end = 0 THEN AddrErr(hostport, "missing ']' in address")
     ELSE IF bracketed /\ end = Len(hostport)
       THEN AddrErr(hostport, "missing port in address")
     ELSE IF bracketed /\ end + 1 # i /\ hostport[end + 1] = ":"
       THEN AddrErr(hostport, "too many colons in address")
     ELSE IF bracketed /\ end + 1 # i
       THEN AddrErr(hostport, "missing port in address")
     ELSE IF ~bracketed /\ IndexByte(host, ":") > 0
       THEN AddrErr(hostport, "too many colons in address")
     ELSE IF IndexByte(Tail_(hostport, j), "[") > 0
       THEN AddrErr(hostport, "unexpected '[' in address")
     ELSE IF IndexByte(Tail_(hostport, k), "]") > 0
       THEN AddrErr(hostport, "unexpected ']' in address")
     ELSE [ok |-> TRUE, host |-> host, port |-> Tail_(hostport, i + 1), err |-> <<>>]

\* A faulty variant of JoinHostPort: it never brackets the host.
JoinHostPortPlain(host, port) == host \o <<":">> \o port

\* net.JoinHostPort: a host that holds a colon is put in brackets.
JoinHostPort(host, port) ==
  IF IndexByte(host, ":") > 0 \/ IndexByte(host, "%") > 0
  THEN <<"[">> \o host \o <<"]", ":">> \o port
  ELSE host \o <<":">> \o port

\* ------------------------------------------------------------------- inputs
\* The request paths, with the leading '/' already cut off (r.URL.Path[1:]).
Paths == StringsUpTo(MaxLen)

\* The values r.URL.Query().Get("proxy") returns: empty (no parameter, or
\* one with an empty value), one without a port (the
\* dial layer rejects it), one with a port.
Proxies == {<<>>, <<"a", "b", "c">>, <<"p", ":", "8">>}

\* The timeouts Run is built with, in seconds: none, and main's five seconds.
Timeouts == {0, 5}

\* The status codes a parseable reply can carry: http.ReadResponse accepts
\* any three digits, so also codes below 100.
ReplyCodes == {99, 200, 407, 502}

\* The header names of the proxy's reply, in the canonical form
\* http.ReadResponse stores them under.
ReplyNames == {"Content-Length", "Content-Type", "Via"}

\* The values under one name, in the order received: v1, or v1 then v2, ...
ValList(n) == [i \in 1..n |-> IF i = 1 THEN "v1" ELSE IF i = 2 THEN "v2" ELSE "v3"]

\* http.Header of a reply: some of the names, each with one or more values.
ReplyHeaders ==
  UNION {[names -> {ValList(n) : n \in 1..MaxVals}] : names \in SUBSET ReplyNames}

\* The parsed replies (http.Response: StatusCode and Header).
Replies == [StatusCode : ReplyCodes, Header : ReplyHeaders]

NoRes == [StatusCode |-> 0, Header |-> <<>>]

\* ------------------------------------------------------------------- errors
\* An error value: whether it implements net.Error, what its Timeout()
\* reports, and its Error() text.  NoErr is nil.
NoErr == [net |-> FALSE, timeout |-> FALSE, text |-> <<>>]

\* What http.ReadResponse can fail with, other than the deadline: the peer
\* resets the connection (a *net.OpError), closes it (io.ErrUnexpectedEOF),
\* or sends something that is no HTTP response.
ReadErrors ==
  { [net |-> TRUE, timeout |-> FALSE, text |-> <<"read tcp: connection reset by peer">>],
    [net |-> FALSE, timeout |-> FALSE, text |-> <<"unexpected EOF">>],
    [net |-> FALSE, timeout |-> FALSE, text |-> <<"malformed HTTP response">>] }

\* The read deadline set by SetDeadline has passed: a net.Error whose
\* Timeout() is true.
TimeoutErr == [net |-> TRUE, timeout |-> TRUE, text |-> <<"read tcp: i/o timeout">>]

\* net.Dialer.Dial("tcp", addr): an address that does not split fails in
\* the resolver, before any connection; otherwise the network decides:
\* connected, refused, or no answer within the dialer's timeout (or the
\* operating system's, when the timeout is 0).
DialOutcomes(addr) ==
  LET sp == SplitHostPort(addr)
  IN IF ~sp.ok
     THEN {[ok |-> FALSE, err |-> [NoErr EXCEPT !.net = TRUE,
                                     !.text = <<"dial tcp: ">> \o sp.err]]}
     ELSE { [ok |-> TRUE, err |-> NoErr],
            [ok |-> FALSE, err |-> [NoErr EXCEPT !.net = TRUE,
                 !.text = <<"dial tcp ">> \o addr \o <<": connect: connection refused">>]],
            [ok |-> FALSE, err |-> [net |-> TRUE, timeout |-> TRUE,
                 text |-> <<"dial tcp ">> \o addr \o <<": i/o timeout">>]] }

\* ------------------------------------------------------------- result, JSON
\* A faulty variant of Result: the proxy is not filled in.
ResultNoProxy(status, error, prx) == [Status |-> status, Error |-> error, Proxy |-> <<>>]

\* type result struct { Status, Error, Proxy }.
Result(status, error, prx) == [Status |-> status, Error |-> error, Proxy |-> prx]

\* A faulty variant of Encode: the omitempty tags are missing.
EncodeNoOmit(v) == [status |-> v.Status, error |-> v.Error, proxy |-> v.Proxy]

\* json.NewEncoder(w).Encode(v) of a result: "status" always, "error" and
\* "proxy" only when not empty (omitempty).
Encode(v) ==
  LET keys == {"status"} \cup (IF v.Error # <<>> THEN {"error"} ELSE {})
                         \cup (IF v.Proxy # <<>> THEN {"proxy"} ELSE {})
  IN [k \in keys |-> IF k = "status" THEN v.Status
                     ELSE IF k = "error" THEN v.Error ELSE v.Proxy]

\* textproto.CanonicalMIMEHeaderKey on the names the handlers use.
Canon(k) ==
  IF k = "content-type" THEN "Content-Type"
  ELSE IF k = "content-length" THEN "Content-Length"
  ELSE k

\* http.Header.Set: the name's values are replaced by the one value.
HeaderSet(hd, k, v) ==
  [n \in (DOMAIN hd) \cup {Canon(k)} |-> IF n = Canon(k) THEN <<v>> ELSE hd[n]]

\* http.Header.Del.
HeaderDel(hd, k) == [n \in (DOMAIN hd) \ {Canon(k)} |-> hd[n]]

\* The inner loop of the relay: for _, v := range vals { w.Header().Set(k, v) }.
RECURSIVE SetEach(_, _, _)
SetEach(hd, k, vals) ==
  IF vals = <<>> THEN hd ELSE SetEach(HeaderSet(hd, k, Head(vals)), k, Tail(vals))

\* The relay loop over res.Header (a map: any order), with the Del of
\* content-length after each name.
RECURSIVE CopyFrom(_, _, _)
CopyFrom(hd, rh, names) ==
  IF names = {} THEN hd
  ELSE LET k == CHOOSE n \in names : TRUE
       IN CopyFrom(HeaderDel(SetEach(hd, k, rh[k]), "content-length"), rh, names \ {k})

\* The whole relay loop.
CopyHeaders(hd, rh) == CopyFrom(hd, rh, DOMAIN rh)

\* A faulty variant of Classify: the switch on net.Error is missing.
ClassifyAllGatewayTimeout(e, prx) ==
  [code |-> StatusGatewayTimeout, v |-> Result("PROXY_CONNECT_ERROR", e.text, prx)]

\* A faulty variant of Classify: the test of Timeout() is the wrong way round.
ClassifyTimeoutInverted(e, prx) ==
  IF e.net
  THEN IF ~e.timeout
       THEN [code |-> StatusGatewayTimeout,
             v |-> Result("PROXY_CONNECT_ERROR", <<"net error: ">> \o e.text, prx)]
       ELSE [code |-> StatusServiceUnavailable,
             v |-> Result("HOST_CONNECT_FAIL", <<"net error: ">> \o e.text, prx)]
  ELSE [code |-> StatusGatewayTimeout, v |-> Result("PROXY_CONNECT_ERROR", e.text, prx)]

\* The error branch of proxyHandler.ServeHTTP: the status and the result for
\* a failed http.ReadResponse.
Classify(e, prx) ==
  IF e.net
  THEN IF e.timeout
       THEN [code |-> StatusGatewayTimeout,
             v |-> Result("PROXY_CONNECT_ERROR", <<"net error: ">> \o e.text, prx)]
       ELSE [code |-> StatusServiceUnavailable,
             v |-> Result("HOST_CONNECT_FAIL", <<"net error: ">> \o e.text, prx)]
  ELSE [code |-> StatusGatewayTimeout, v |-> Result("PROXY_CONNECT_ERROR", e.text, prx)]

\* fmt.Fprintf(c, "CONNECT %s:%s HTTP/1.1\n\n", host, port).
ConnectLine(hst, prt) == <<"CONNECT ">> \o hst \o <<":">> \o prt \o <<" HTTP/1.1\n\n">>

\* -------------------------------------------------------------------- state
VARIABLES
  path,      \* r.URL.Path[1:], the target as requested
  given,     \* the request's query carries a proxy parameter
  proxy,     \* r.URL.Query().Get("proxy"), <<>> when there is none
  timeout,   \* the timeout Run was built with
  pc,        \* where the request is: start, plain, check, close, answer,
             \* proxy, dial, deadline, write, read, classify, relay, done
  host,      \* the parsed target
  port,
  conn,      \* the connection the probe dials: none, open, closed
  dials,     \* the addresses given to Dial, in order
  sent,      \* what was written to the proxy connection, in order
  deadline,  \* the connection's deadline: unset, set, expired
  err,       \* the error of the last dial or read, NoErr when nil
  res,       \* the parsed reply of the proxy, NoRes before one is read
  hdr,       \* w.Header(), the outbound header map
  out,       \* the responses written to w, in order
  panicked,  \* the handler was unwound by a panic
  drain,     \* the goroutine that discards res.Body: none, spawned, done
  drainAt,   \* the handler's pc when that goroutine read the body
  handler,   \* the handler the dispatcher called: none, plain, proxy
  log        \* the steps the probe has taken, in order

vars == <<path, given, proxy, timeout, pc, host, port, conn, dials, sent, deadline,
          err, res, hdr, out, panicked, drain, drainAt, handler, log>>

EmptyHeader == [n \in {} |-> <<>>]

Init ==
  /\ path \in Paths
  /\ proxy \in Proxies
  /\ given \in BOOLEAN
  /\ proxy # <<>> => given
  /\ timeout \in Timeouts
  /\ pc = "start"
  /\ host = <<>>
  /\ port = <<>>
  /\ conn = "none"
  /\ dials = <<>>
  /\ sent = <<>>
  /\ deadline = "unset"
  /\ err = NoErr
  /\ res = NoRes
  /\ hdr = EmptyHeader
  /\ out = <<>>
  /\ panicked = FALSE
  /\ drain = "none"
  /\ drainAt = "none"
  /\ handler = "none"
  /\ log = <<>>

\* ResponseWriter.WriteHeader's check of the code (net/http's
\* checkWriteHeaderCode): a code outside 100..999 panics.
ValidWriteHeaderCode(code) == code >= 100 /\ code <= 999

\* A faulty variant of WriteJSON: the status line is always 200.
WriteJSONAlwaysOK(h0, code, v) ==
  LET h1 == HeaderSet(h0, "content-type", "application/json;charset=utf-8")
  IN /\ hdr' = h1
     /\ out' = Append(out, [code |-> StatusOK, header |-> h1, body |-> Encode(v)])
     /\ panicked' = panicked

\* A faulty variant of WriteJSON: a content type that is already there is
\* kept.
WriteJSONKeepsContentType(h0, code, v) ==
  LET h1 == IF "Content-Type" \in DOMAIN h0 THEN h0
            ELSE HeaderSet(h0, "content-type", "application/json;charset=utf-8")
  IN /\ hdr' = h1
     /\ IF ValidWriteHeaderCode(code)
        THEN /\ out' = Append(out, [code |-> code, header |-> h1, body |-> Encode(v)])
             /\ panicked' = panicked
        ELSE /\ out' = out
             /\ panicked' = TRUE

\* writeJSON(w, code, v), with h0 the header map of w as the caller left it:
\* sets the content type, writes the status line,
\* encodes v as the body.  WriteHeader panics on an invalid code, after the
\* header was set and before anything is written.
WriteJSON(h0, code, v) ==
  LET h1 == HeaderSet(h0, "content-type", "application/json;charset=utf-8")
  IN /\ hdr' = h1
     /\ IF ValidWriteHeaderCode(code)
        THEN /\ out' = Append(out, [code |-> code, header |-> h1, body |-> Encode(v)])
             /\ panicked' = panicked
        ELSE /\ out' = out
             /\ panicked' = TRUE

\* A faulty variant of Close: the connection is left open.
CloseLeaks(c) == c

\* c.Close() on the probe's connection (in Check, and deferred in the proxy
\* handler).
Close(c) == IF c = "open" THEN "closed" ELSE c

\* A faulty variant of ChooseHandler: every request goes to the plain handler.
ChooseHandlerPlain(q) == "plain"

\* The dispatcher's choice: the proxy handler when the proxy query value is
\* not empty.
ChooseHandler(q) == IF q # <<>> THEN "proxy" ELSE "plain"

\* The handler Run returns: it picks the handler and calls it.
Dispatch ==
  /\ pc = "start"
  /\ handler' = ChooseHandler(proxy)
  /\ pc' = handler'
  /\ UNCHANGED <<path, given, proxy, timeout, host, port, conn, dials, sent,
                 deadline, err, res, hdr, out, panicked, drain, drainAt, log>>

\* ------------------------------------------------------------- direct probe
\* The plain handler up to the parse: a path that does not split is
\* answered INVALID_HOST, 400.
PlainParse ==
  /\ pc = "plain"
  /\ LET sp == SplitHostPort(path)
     IN IF ~sp.ok
        THEN /\ WriteJSON(hdr, StatusBadRequest, Result("INVALID_HOST", sp.err, <<>>))
             /\ pc' = "done"
             /\ log' = Append(log, "respond")
             /\ UNCHANGED <<host, port>>
        ELSE /\ host' = sp.host
             /\ port' = sp.port
             /\ pc' = "check"
             /\ UNCHANGED <<hdr, out, panicked, log>>
  /\ UNCHANGED <<path, given, handler, proxy, timeout, conn, dials, sent, deadline, err, res,
                 drain, drainAt>>

\* plainTest.Check, the dial: t.Dial("tcp", net.JoinHostPort(host, port)).
PlainDial ==
  /\ pc = "check"
  /\ LET addr == JoinHostPort(host, port)
     IN /\ dials' = Append(dials, addr)
        /\ \E o \in DialOutcomes(addr) :
             /\ err' = o.err
             /\ conn' = IF o.ok THEN "open" ELSE conn
             /\ pc' = IF o.ok THEN "close" ELSE "answer"
  /\ log' = Append(log, "dial")
  /\ UNCHANGED <<path, given, handler, proxy, timeout, host, port, sent, deadline, res, hdr, out,
                 panicked, drain, drainAt>>

\* plainTest.Check after a successful dial: c.Close().
PlainClose ==
  /\ pc = "close"
  /\ conn' = Close(conn)
  /\ pc' = "answer"
  /\ log' = Append(log, "close")
  /\ UNCHANGED <<path, given, handler, proxy, timeout, host, port, dials, sent, deadline, err,
                 res, hdr, out, panicked, drain, drainAt>>

\* The plain handler after Check: HOST_CONNECT_FAIL, 502 on an error,
\* otherwise OK, 200.
PlainRespond ==
  /\ pc = "answer"
  /\ IF err # NoErr
     THEN WriteJSON(hdr, StatusBadGateway, Result("HOST_CONNECT_FAIL", err.text, <<>>))
     ELSE WriteJSON(hdr, StatusOK, Result("OK", <<>>, <<>>))
  /\ pc' = "done"
  /\ log' = Append(log, "respond")
  /\ UNCHANGED <<path, given, handler, proxy, timeout, host, port, conn, dials, sent, deadline,
                 err, res, drain, drainAt>>

\* -------------------------------------------------------------- proxy probe
\* proxyHandler.ServeHTTP up to the parse: a path that does not split is
\* answered BAD_URL, 400, with the proxy named.
ProxyParse ==
  /\ pc = "proxy"
  /\ LET sp == SplitHostPort(path)
     IN IF ~sp.ok
        THEN /\ WriteJSON(hdr, StatusBadRequest, Result("BAD_URL", sp.err, proxy))
             /\ pc' = "done"
             /\ log' = Append(log, "respond")
             /\ UNCHANGED <<host, port>>
        ELSE /\ host' = sp.host
             /\ port' = sp.port
             /\ pc' = "dial"
             /\ UNCHANGED <<hdr, out, panicked, log>>
  /\ UNCHANGED <<path, given, handler, proxy, timeout, conn, dials, sent, deadline, err, res,
                 drain, drainAt>>

\* A faulty variant of ProxyDial: the return after the failed dial is missing.
ProxyDialNoReturn ==
  /\ pc = "dial"
  /\ dials' = Append(dials, proxy)
  /\ \E o \in DialOutcomes(proxy) :
       /\ err' = o.err
       /\ conn' = IF o.ok THEN "open" ELSE conn
       /\ IF o.ok
          THEN /\ log' = Append(log, "dial")
               /\ UNCHANGED <<hdr, out, panicked>>
          ELSE /\ WriteJSON(hdr, StatusBadRequest,
                            Result("PROXY_UNREACHABLE", o.err.text, proxy))
               /\ log' = log \o <<"dial", "respond">>
  /\ pc' = "deadline"
  /\ UNCHANGED <<path, given, handler, proxy, timeout, host, port, sent, deadline, res, drain,
                 drainAt>>

\* A faulty variant of ProxyDial: a first failed dial is tried again.
ProxyDialRetry ==
  /\ pc = "dial"
  /\ dials' = Append(dials, proxy)
  /\ \E o \in DialOutcomes(proxy) :
       /\ err' = o.err
       /\ IF o.ok
          THEN /\ conn' = "open"
               /\ pc' = "deadline"
               /\ log' = Append(log, "dial")
               /\ UNCHANGED <<hdr, out, panicked>>
          ELSE IF dials = <<>>
          THEN /\ pc' = "dial"
               /\ log' = Append(log, "dial")
               /\ UNCHANGED <<conn, hdr, out, panicked>>
          ELSE /\ WriteJSON(hdr, StatusBadRequest,
                            Result("PROXY_UNREACHABLE", o.err.text, proxy))
               /\ pc' = "done"
               /\ log' = log \o <<"dial", "respond">>
               /\ UNCHANGED conn
  /\ UNCHANGED <<path, given, handler, proxy, timeout, host, port, sent, deadline,
                 res, drain, drainAt>>

\* dialer.Dial("tcp", proxy): a failed dial is answered PROXY_UNREACHABLE,
\* 400; after a successful one the Close is deferred.
ProxyDial ==
  /\ pc = "dial"
  /\ dials' = Append(dials, proxy)
  /\ \E o \in DialOutcomes(proxy) :
       /\ err' = o.err
       /\ IF o.ok
          THEN /\ conn' = "open"
               /\ pc' = "deadline"
               /\ log' = Append(log, "dial")
               /\ UNCHANGED <<hdr, out, panicked>>
          ELSE /\ WriteJSON(hdr, StatusBadRequest,
                            Result("PROXY_UNREACHABLE", o.err.text, proxy))
               /\ pc' = "done"
               /\ log' = log \o <<"dial", "respond">>
               /\ UNCHANGED conn
  /\ UNCHANGED <<path, given, handler, proxy, timeout, host, port, sent, deadline, res, drain,
                 drainAt>>

\* A faulty variant of DeadlineAfterDial: the test of the timeout is missing.
DeadlineAlways(t) == "set"

\* A faulty variant of DeadlineAfterDial: the deadline is never set.
DeadlineNever(t) == "unset"

\* if p.Timeout > 0 { c.SetDeadline(time.Now().Add(p.Timeout)) }.
DeadlineAfterDial(t) == IF t > 0 THEN "set" ELSE "unset"

ProxySetDeadline ==
  /\ pc = "deadline"
  /\ deadline' = DeadlineAfterDial(timeout)
  /\ pc' = "write"
  /\ log' = IF deadline' = "set" THEN Append(log, "deadline") ELSE log
  /\ UNCHANGED <<path, given, handler, proxy, timeout, host, port, conn, dials, sent, err, res,
                 hdr, out, panicked, drain, drainAt>>

\* fmt.Fprintf(c, "CONNECT ..."): the request goes out, or the write fails
\* (the error is dropped), or it takes until the deadline, if one is set.
ProxyWrite ==
  /\ pc = "write"
  /\ \E w \in {"ok", "fail", "slow"} :
       /\ w = "slow" => deadline = "set"
       /\ sent' = IF w = "fail" THEN sent ELSE Append(sent, ConnectLine(host, port))
       /\ deadline' = IF w = "slow" THEN "expired" ELSE deadline
  /\ pc' = "read"
  /\ log' = Append(log, "write")
  /\ UNCHANGED <<path, given, handler, proxy, timeout, host, port, conn, dials, err, res, hdr,
                 out, panicked, drain, drainAt>>

\* http.ReadResponse returns a parsed reply.
RecvResponse ==
  /\ pc = "read"
  /\ deadline # "expired"
  /\ \E r \in Replies : res' = r
  /\ pc' = "classify"
  /\ log' = Append(log, "read")
  /\ UNCHANGED <<path, given, handler, proxy, timeout, host, port, conn, dials, sent, deadline,
                 err, hdr, out, panicked, drain, drainAt>>

\* http.ReadResponse fails because of what the peer did.
RecvError ==
  /\ pc = "read"
  /\ deadline # "expired"
  /\ \E e \in ReadErrors : err' = e
  /\ pc' = "classify"
  /\ log' = Append(log, "read")
  /\ UNCHANGED <<path, given, handler, proxy, timeout, host, port, conn, dials, sent, deadline,
                 res, hdr, out, panicked, drain, drainAt>>

\* http.ReadResponse fails because the deadline has passed.
DeadlineExceeded ==
  /\ pc = "read"
  /\ deadline \in {"set", "expired"}
  /\ deadline' = "expired"
  /\ err' = TimeoutErr
  /\ pc' = "classify"
  /\ log' = Append(log, "read")
  /\ UNCHANGED <<path, given, handler, proxy, timeout, host, port, conn, dials, sent, res, hdr,
                 out, panicked, drain, drainAt>>

\* The error branch: classify, writeJSON, return (the deferred Close runs).
ProxyRespondErr ==
  /\ pc = "classify"
  /\ err # NoErr
  /\ LET c == Classify(err, proxy) IN WriteJSON(hdr, c.code, c.v)
  /\ conn' = Close(conn)
  /\ pc' = "done"
  /\ log' = log \o <<"classify", "respond", "close">>
  /\ UNCHANGED <<path, given, handler, proxy, timeout, host, port, dials, sent, deadline, err,
                 res, drain, drainAt>>

\* go func() { io.Copy(ioutil.Discard, res.Body); res.Body.Close() }().
ProxySpawnDrain ==
  /\ pc = "classify"
  /\ err = NoErr
  /\ drain' = "spawned"
  /\ pc' = "relay"
  /\ log' = Append(log, "classify")
  /\ UNCHANGED <<path, given, handler, proxy, timeout, host, port, conn, dials, sent, deadline,
                 err, res, hdr, out, panicked, drainAt>>

\* A faulty variant of ProxyRelay: the body is drained before the response
\* is written (io.Copy without the go statement).
ProxyRelayAfterDrain ==
  /\ pc = "relay"
  /\ drain = "done"
  /\ WriteJSON(CopyHeaders(hdr, res.Header), res.StatusCode, Result("OK", <<>>, proxy))
  /\ conn' = Close(conn)
  /\ pc' = "done"
  /\ log' = log \o <<IF panicked' THEN "panic" ELSE "respond", "close">>
  /\ UNCHANGED <<path, given, handler, proxy, timeout, host, port, dials, sent,
                 deadline, err, res, drain, drainAt>>

\* The relay of the reply's headers and writeJSON(w, res.StatusCode, reslt),
\* then the return (the deferred Close runs, also when writeJSON panics).
ProxyRelay ==
  /\ pc = "relay"
  /\ WriteJSON(CopyHeaders(hdr, res.Header), res.StatusCode, Result("OK", <<>>, proxy))
  /\ conn' = Close(conn)
  /\ pc' = "done"
  /\ log' = log \o <<IF panicked' THEN "panic" ELSE "respond", "close">>
  /\ UNCHANGED <<path, given, handler, proxy, timeout, host, port, dials, sent, deadline, err,
                 res, drain, drainAt>>

\* The goroutine reads what is left of the reply's body and drops it, and
\* any error with it.
Drain ==
  /\ drain = "spawned"
  /\ drain' = "done"
  /\ drainAt' = pc
  /\ UNCHANGED <<path, given, handler, proxy, timeout, pc, host, port, conn, dials, sent,
                 deadline, err, res, hdr, out, panicked, log>>

Next ==
  \/ Dispatch
  \/ PlainParse
  \/ PlainDial
  \/ PlainClose
  \/ PlainRespond
  \/ ProxyParse
  \/ ProxyDial
  \/ ProxySetDeadline
  \/ ProxyWrite
  \/ RecvResponse
  \/ RecvError
  \/ DeadlineExceeded
  \/ ProxyRespondErr
  \/ ProxySpawnDrain
  \/ ProxyRelay
  \/ Drain

Spec == Init /\ [][Next]_vars

\* The scheduling the code has: the handler's goroutine and the drain
\* goroutine keep running, and a deadline that is set does pass.  Nothing
\* makes the peer answer.
Handler ==
  \/ Dispatch
  \/ PlainParse
  \/ PlainDial
  \/ PlainClose
  \/ PlainRespond
  \/ ProxyParse
  \/ ProxyDial
  \/ ProxySetDeadline
  \/ ProxyWrite
  \/ ProxyRespondErr
  \/ ProxySpawnDrain
  \/ ProxyRelay

FairSpec ==
  Init /\ [][Next]_vars /\ WF_vars(Handler) /\ WF_vars(Drain) /\ WF_vars(DeadlineExceeded)

\* ------------------------------------------------------------------- claims
Done == pc = "done"

Did(step) == \E i \in 1..Len(log) : log[i] = step

\* The one response of a finished request, when there is exactly one.
Body == out[1].body

HasKey(k) == k \in DOMAIN Body

ParseOK == SplitHostPort(path).ok

ViaProxy == proxy # <<>>

HasReply == res.StatusCode # 0

\* C1: whenever parsing the target fails, nothing is ever dialed, and the
\* request ends with one response, HTTP 400, carrying the parse error text:
\* INVALID_HOST and no proxy field on the direct path, BAD_URL and the
\* supplied proxy address on the proxy path.
C1_ParseFailureIs400WithoutDial ==
  ~ParseOK =>
    /\ dials = <<>> /\ conn = "none" /\ sent = <<>>
    /\ Done =>
         /\ Len(out) = 1
         /\ out[1].code = 400
         /\ HasKey("error") /\ Body.error = SplitHostPort(path).err
         /\ ~ViaProxy => Body.status = "INVALID_HOST" /\ ~HasKey("proxy")
         /\ ViaProxy => Body.status = "BAD_URL" /\ HasKey("proxy") /\ Body.proxy = proxy

C1_Witness ==
  Done /\ ~ParseOK /\ ViaProxy /\ Len(path) > 0 /\ Len(out) = 1 /\ Body.status = "BAD_URL"

\* The targets that cannot be split into a non-empty host and a non-empty
\* port: no colon, an empty fragment, an empty host, an empty port.
NoNonEmptyHostAndPort(s) ==
  LET sp == SplitHostPort(s) IN ~sp.ok \/ sp.host = <<>> \/ sp.port = <<>>

\* C2: for every target that cannot be split into a non-empty host and a
\* non-empty port, the request is answered with a parse-failure status and
\* no network I/O is performed: nothing is dialed and no CONNECT is written.
C2_EmptyHostOrPortNeverDialed ==
  NoNonEmptyHostAndPort(path) =>
    /\ dials = <<>> /\ sent = <<>>
    /\ Done /\ Len(out) = 1 => Body.status \in {"INVALID_HOST", "BAD_URL"}

\* C3: when the dial of the proxy fails (the target having parsed), the one
\* response is PROXY_UNREACHABLE, HTTP 400, with the dial error text and the
\* proxy address as supplied; no CONNECT is written and no read is attempted.
C3_ProxyDialFailure ==
  Done /\ ViaProxy /\ ParseOK /\ conn = "none" =>
    /\ Len(out) = 1
    /\ out[1].code = 400
    /\ Body.status = "PROXY_UNREACHABLE"
    /\ HasKey("error") /\ Body.error = err.text /\ err.text # <<>>
    /\ HasKey("proxy") /\ Body.proxy = proxy
    /\ dials = <<proxy>>
    /\ sent = <<>> /\ ~Did("write") /\ ~Did("read") /\ ~HasReply

C3_Witness ==
  Done /\ ViaProxy /\ ParseOK /\ conn = "none" /\ SplitHostPort(proxy).ok /\ err.timeout

\* C4: for every parseable reply of the proxy, whatever its status code, the
\* request ends with one response whose status is OK, without an error
\* field, with the proxy address as supplied, with the reply's status code
\* as its HTTP status, and without a Content-Length header.
C4_ReplyPassedThrough ==
  Done /\ HasReply =>
    /\ Len(out) = 1
    /\ out[1].code = res.StatusCode
    /\ Body.status = "OK"
    /\ ~HasKey("error")
    /\ HasKey("proxy") /\ Body.proxy = proxy
    /\ "Content-Length" \notin DOMAIN out[1].header

\* C5: when reading the proxy's reply fails, the response is decided by the
\* shape of the error alone: a network error reporting a timeout gives
\* PROXY_CONNECT_ERROR with 504, a network error reporting none gives
\* HOST_CONNECT_FAIL with 503, any other error gives PROXY_CONNECT_ERROR
\* with 504; the error field is not empty and the proxy field is the
\* supplied address.
C5_ReadFailureClassified ==
  Done /\ Did("read") /\ err # NoErr =>
    /\ Len(out) = 1
    /\ IF err.net /\ ~err.timeout
       THEN Body.status = "HOST_CONNECT_FAIL" /\ out[1].code = 503
       ELSE Body.status = "PROXY_CONNECT_ERROR" /\ out[1].code = 504
    /\ HasKey("error") /\ Body.error # <<>>
    /\ HasKey("proxy") /\ Body.proxy = proxy

C5_Witness ==
  Done /\ Did("read") /\ err.net /\ ~err.timeout /\ Len(out) = 1 /\ out[1].code = 503

\* C6: when a handler has returned, no connection it opened is still open:
\* a connection that was dialed successfully is closed, on the direct path
\* and on every exit of the proxy path.
C6_NoConnectionLeftOpen ==
  Done =>
    /\ conn # "open"
    /\ ~ViaProxy /\ Did("dial") /\ err = NoErr => conn = "closed"
    /\ ViaProxy /\ Did("write") => conn = "closed"

C6_Witness == Done /\ ViaProxy /\ conn = "closed" /\ Did("read") /\ err # NoErr

\* C7 as stated: every probe terminates, whatever the timeout and whatever
\* the peer does.
C7_EveryProbeTerminates == <>Done

\* C7 as amended: with a timeout greater than 0 every probe terminates,
\* whatever the peer does, with its response written (or unwound by the
\* panic of writeJSON on a reply code below 100).
C7_TerminatesWhenTimeoutPositive ==
  (timeout > 0) ~> (Done /\ (Len(out) = 1 \/ panicked))

C7_Witness == Done /\ timeout > 0 /\ Did("deadline") /\ err = TimeoutErr /\ Len(out) = 1

\* C8: in every response, the error field is present exactly when the
\* status is not OK, and a present error field is not empty.
C8_ErrorIffNotOK ==
  \A i \in 1..Len(out) :
    /\ ("error" \in DOMAIN out[i].body) <=> (out[i].body.status # "OK")
    /\ "error" \in DOMAIN out[i].body => out[i].body.error # <<>>

C8_Witness == Done /\ Len(out) = 1 /\ HasKey("error") /\ ~ViaProxy /\ ParseOK

\* C9: in every response, the proxy field is present exactly when the
\* request went through a proxy, and it is then the supplied proxy address.
C9_ProxyFieldIffProxyUsed ==
  \A i \in 1..Len(out) :
    /\ ("proxy" \in DOMAIN out[i].body) <=> ViaProxy
    /\ "proxy" \in DOMAIN out[i].body => out[i].body.proxy = proxy

C9_Witness == Done /\ Len(out) = 1 /\ HasKey("proxy") /\ HasReply /\ Body.status = "OK"

\* C10: the direct probe dials the target as parsed, once: the address it
\* dials splits into the host and port the path split into.  A successful
\* dial is answered OK with 200, without error or proxy field; a failed one
\* HOST_CONNECT_FAIL with 502 and the dial error text, without proxy field.
C10_DirectProbe ==
  Done /\ ~ViaProxy /\ ParseOK =>
    /\ Len(dials) = 1
    /\ SplitHostPort(dials[1]).ok
    /\ SplitHostPort(dials[1]).host = SplitHostPort(path).host
    /\ SplitHostPort(dials[1]).port = SplitHostPort(path).port
    /\ host = SplitHostPort(path).host /\ port = SplitHostPort(path).port
    /\ Len(out) = 1
    /\ ~HasKey("proxy")
    /\ IF err = NoErr
       THEN Body.status = "OK" /\ out[1].code = 200 /\ ~HasKey("error")
       ELSE /\ Body.status = "HOST_CONNECT_FAIL" /\ out[1].code = 502
            /\ HasKey("error") /\ Body.error = err.text

C10_Witness ==
  Done /\ ~ViaProxy /\ ParseOK /\ err = NoErr /\ Len(out) = 1 /\ IndexByte(host, ":") > 0

\* The target the path parses into, as the direct probe dials it.
TargetAddr == JoinHostPort(SplitHostPort(path).host, SplitHostPort(path).port)

\* C11: a request makes at most one connection attempt: nothing is dialed
\* when the parse fails, and otherwise one address once, the target on the
\* direct path and the proxy on the proxy path, whatever the dial, the write
\* and the read come to; the CONNECT is written at most once.
C11_AtMostOneDial ==
  /\ Len(dials) <= 1
  /\ Len(sent) <= 1
  /\ dials # <<>> => ParseOK /\ dials[1] = (IF ViaProxy THEN proxy ELSE TargetAddr)
  /\ Done => (Len(dials) = 0 <=> ~ParseOK)

C11_Witness ==
  Done /\ ViaProxy /\ Len(dials) = 1 /\ conn = "none" /\ err # NoErr /\ ~SplitHostPort(proxy).ok

\* C12: every response written has the content type
\* application/json;charset=utf-8, also when the proxy's reply carried a
\* Content-Type of its own that the relay copied.
JSONContentType == <<"application/json;charset=utf-8">>

C12_ContentTypeIsJSON ==
  \A i \in 1..Len(out) :
    /\ "Content-Type" \in DOMAIN out[i].header
    /\ out[i].header["Content-Type"] = JSONContentType

C12_Witness ==
  /\ Done /\ HasReply /\ Len(out) = 1
  /\ "Content-Type" \in DOMAIN res.Header
  /\ res.Header["Content-Type"] # JSONContentType

\* What a caller observes of a response: the result status, the proxy field
\* (empty when absent) and the HTTP status.
Observed(o) ==
  [status |-> o.body.status,
   proxy |-> IF "proxy" \in DOMAIN o.body THEN o.body.proxy ELSE <<>>,
   code |-> o.code]

Obs(status, prx, code) == <<[status |-> status, proxy |-> prx, code |-> code]>>

\* The responses as a function of the inputs and of the environment's
\* answers alone: the target, the proxy address, whether the dial connected,
\* the shape of the read error, the code of the reply.  The timeout, the
\* fate of the CONNECT write and the scheduling of the drain are no
\* arguments of it.
Determined(pth, prx, dialed, e, code) ==
  IF ~SplitHostPort(pth).ok
    THEN Obs(IF prx # <<>> THEN "BAD_URL" ELSE "INVALID_HOST", prx, 400)
  ELSE IF prx = <<>>
    THEN IF dialed THEN Obs("OK", <<>>, 200) ELSE Obs("HOST_CONNECT_FAIL", <<>>, 502)
  ELSE IF ~dialed THEN Obs("PROXY_UNREACHABLE", prx, 400)
  ELSE IF code # 0 THEN (IF code >= 100 /\ code <= 999 THEN Obs("OK", prx, code) ELSE <<>>)
  ELSE IF e.net /\ ~e.timeout THEN Obs("HOST_CONNECT_FAIL", prx, 503)
  ELSE Obs("PROXY_CONNECT_ERROR", prx, 504)

\* C13: the probe is deterministic: the result status, the proxy field and
\* the HTTP status of a finished request are a function of the target, the
\* proxy address and the environment's dial and read answers, so two
\* invocations that agree on these agree on what they answer.
C13_ResponseDetermined ==
  Done =>
    [i \in 1..Len(out) |-> Observed(out[i])]
      = Determined(path, proxy, conn # "none", err, res.StatusCode)

C13_Witness ==
  /\ Done /\ ViaProxy /\ Did("read") /\ err = TimeoutErr /\ timeout > 0
  /\ sent = <<>> /\ Len(out) = 1 /\ out[1].code = 504

\* C14: on tunnel success every value the proxy sent under a header name
\* other than Content-Length is on the outbound response under that name.
\* (Content-Type, which writeJSON sets itself, is left aside here.)
C14_EveryHeaderValueRelayed ==
  Done /\ HasReply /\ Len(out) = 1 =>
    \A n \in (DOMAIN res.Header) \ {"Content-Length", "Content-Type"} :
      /\ n \in DOMAIN out[1].header
      /\ \A i \in 1..Len(res.Header[n]) :
           \E j \in 1..Len(out[1].header[n]) : out[1].header[n][j] = res.Header[n][i]

\* C15 as stated: the drain never reads the body before the response has
\* been written.
C15_DrainOnlyAfterResponse == drain = "done" => drainAt = "done"

\* C15 as amended: the drain is a detached task that runs at any time after
\* the reply was parsed, before or after the response: the handler never
\* waits for it, and a drain step, whether it finds the connection open or
\* already closed, changes neither the response nor the handler's progress.
C15_DrainDetached ==
  /\ [](pc = "relay" => ENABLED ProxyRelay)
  /\ [](drain = "done" => drainAt \in {"relay", "done"})
  /\ [](drain # "none" => HasReply)
  /\ [][Drain => /\ out' = out /\ hdr' = hdr /\ pc' = pc
                 /\ panicked' = panicked /\ conn' = conn]_vars

C15_Witness ==
  Done /\ Len(out) = 1 /\ drain = "done" /\ drainAt = "relay" /\ Body.status = "OK"

\* Where a step is in the log, 0 when it is not there.
Pos(step) == IF Did(step) THEN CHOOSE i \in 1..Len(log) : log[i] = step ELSE 0

Count(step) == Cardinality({i \in 1..Len(log) : log[i] = step})

\* step a was taken before step b, if b was taken at all.
Precedes(a, b) == Did(b) => Did(a) /\ Pos(a) < Pos(b)

\* C16: within one proxy probe the steps come in the order dial, write,
\* read, classify, respond, each at most once: the CONNECT is written only
\* after a successful dial, the read follows the write, a response after a
\* read follows the classification.  The deadline is set at most once,
\* after the dial and before the write, exactly when the timeout is
\* greater than 0.
C16_StepsInOrder ==
  handler = "proxy" =>
    /\ \A st \in {"dial", "deadline", "write", "read", "classify", "respond"} :
         Count(st) <= 1
    /\ Precedes("dial", "write") /\ (Did("write") => conn # "none")
    /\ Precedes("write", "read")
    /\ Precedes("read", "classify")
    /\ Did("read") => Precedes("classify", "respond")
    /\ Did("dial") /\ Did("respond") => Pos("dial") < Pos("respond")
    /\ Precedes("dial", "deadline")
    /\ Did("deadline") => timeout > 0 /\ deadline # "unset"
    /\ Did("write") => Pos("deadline") < Pos("write")
    /\ Did("write") => (Did("deadline") <=> timeout > 0)

C16_Witness ==
  /\ Done /\ timeout > 0
  /\ log = <<"dial", "deadline", "write", "read", "classify", "respond", "close">>

\* C17 as stated: a request that carries a proxy query parameter is handled
\* by the proxy probe.
C17_ProxyParameterMeansProxyProbe == given /\ pc # "start" => handler = "proxy"

\* C17 as amended: the dispatcher chooses by whether the value of the proxy
\* query parameter is empty: a request with a non-empty value is handled by
\* the proxy probe against that address and the target is never dialed
\* directly; a request without the parameter, or with an empty value, is
\* handled by the direct probe and nothing but the target is dialed.  One
\* handler runs per request.
C17_DispatchByNonEmptyProxy ==
  /\ pc = "start" <=> handler = "none"
  /\ pc # "start" => (handler = "proxy" <=> proxy # <<>>)
                     /\ (handler = "plain" <=> proxy = <<>>)
  /\ pc \in {"plain", "check", "close", "answer"} => handler = "plain"
  /\ pc \in {"proxy", "dial", "deadline", "write", "read", "classify", "relay"}
       => handler = "proxy"
  /\ handler = "proxy" => \A i \in 1..Len(dials) : dials[i] = proxy
  /\ handler = "plain" => sent = <<>> /\ \A i \in 1..Len(dials) : dials[i] = TargetAddr
  /\ Done /\ Len(out) = 1 => (HasKey("proxy") <=> handler = "proxy")

C17_Witness == Done /\ given /\ proxy = <<>> /\ handler = "plain" /\ Len(dials) = 1

\* C18: every request gets exactly one response, with a result status of
\* the closed set.
C18_ExactlyOneResponse ==
  /\ Len(out) <= 1
  /\ Done =>
       /\ Len(out) = 1
       /\ Body.status \in {"OK", "INVALID_HOST", "BAD_URL", "HOST_CONNECT_FAIL",
                           "PROXY_UNREACHABLE", "PROXY_CONNECT_ERROR"}

====
